---- MODULE Spec2Model ----
(***************************************************************************)
(* Model of local-whisper-svc: the LocalAgreement commit policy            *)
(* (local_agreement.py) and the SileroVAD speech activity hysteresis       *)
(* (vad.py).                                                               *)
(*                                                                         *)
(* A Python str is modelled as a sequence of one-character strings, so     *)
(* that prefixes, rfind and rstrip are computed position by position.      *)
(* Python's None is modelled by the integer -1 for the nullable            *)
(* timestamps and by a record with some = FALSE for an absent result.      *)
(***************************************************************************)
EXTENDS Integers, Sequences, FiniteSets, TLC

VARIABLES
    history,            \* LocalAgreement.history
    committed_prefix,   \* LocalAgreement.committed_prefix
    min_new_chars,      \* LocalAgreement.min_new_chars
    result,             \* value returned by the last LocalAgreement call
    op,                 \* name of the last LocalAgreement call
    is_speaking,        \* SileroVAD._is_speaking
    speech_start_ms,    \* SileroVAD._speech_start_ms
    silence_start_ms,   \* SileroVAD._silence_start_ms
    current_ms,         \* SileroVAD._current_ms
    events,             \* list returned by the last process_chunk call
    chunks,             \* chunks fed to process_chunk since the last reset
    vad_op,             \* name of the last SileroVAD call
    sessions,           \* WhisperServer.sessions: session id -> Session
    line,               \* the last line a connection handler read
    backend,            \* what the scorer and the engine did for that line
    hypothesis,         \* result.text of engine.transcribe for that line
    response,           \* the response written for that line, if any
    conn_open,          \* whether that line's connection is still served
    in_flight           \* lines whose handler is inside a backend call

la_vars == <<history, committed_prefix, min_new_chars, result, op>>
vad_vars == <<is_speaking, speech_start_ms, silence_start_ms, current_ms,
              events, chunks, vad_op>>
srv_vars == <<sessions, line, backend, hypothesis, response, conn_open,
              in_flight>>
vars == <<history, committed_prefix, min_new_chars, result, op,
          is_speaking, speech_start_ms, silence_start_ms, current_ms,
          events, chunks, vad_op,
          sessions, line, backend, hypothesis, response, conn_open,
          in_flight>>

(***************************************************************************)
(* Bounds of the model.                                                    *)
(***************************************************************************)
\* longest hypothesis text fed to the stabilizer
MaxLen == 2
\* number of chunks fed to the tracker between two resets
MaxChunks == 7
\* Audio commands the shared tracker takes between two resets of its clock
MaxAudioRuns == 3
\* largest audio buffer of a session, in half seconds of audio
MaxBufferHalfSeconds == 11

\* characters of the hypotheses: a letter and the space
Alphabet == {"a", " "}
\* values of min_new_chars a stabilizer is constructed with
MinNewChars == {0, 1}
\* characters str.rstrip() removes
Whitespace == {" ", "\t", "\n"}

Strings == UNION {[1..m -> Alphabet] : m \in 0..MaxLen}

(***************************************************************************)
(* LocalAgreement                                                          *)
(***************************************************************************)
\* history window size and required stable iterations, as the server
\* constructs every stabilizer
K == 3
N == 2

None == -1

NoResult == [some |-> FALSE, text |-> <<>>, is_final |-> FALSE,
             committed_prefix |-> <<>>]

AgreementResult(text, is_final, cp) ==
    [some |-> TRUE, text |-> text, is_final |-> is_final,
     committed_prefix |-> cp]

Min(S) == CHOOSE x \in S : \A y \in S : x <= y

\* a plausible slip: any() instead of all() over the other strings
RECURSIVE lcp_loop_any(_, _, _)
lcp_loop_any(strings, i, min_len) ==
    IF i >= min_len
    THEN i
    ELSE IF \E j \in 2..Len(strings) : strings[j][i + 1] = strings[1][i + 1]
         THEN lcp_loop_any(strings, i + 1, min_len)
         ELSE i

\* the for loop of _longest_common_prefix, entered at 0-based position i
\* with prefix_len = i: the value of prefix_len when the loop ends
RECURSIVE lcp_loop(_, _, _)
lcp_loop(strings, i, min_len) ==
    IF i >= min_len
    THEN i
    ELSE IF \A j \in 1..Len(strings) : strings[j][i + 1] = strings[1][i + 1]
         THEN lcp_loop(strings, i + 1, min_len)
         ELSE i

_longest_common_prefix(strings) ==
    IF Len(strings) = 0 THEN <<>>
    ELSE IF Len(strings) = 1 THEN strings[1]
    ELSE LET min_len == Min({Len(strings[j]) : j \in 1..Len(strings)})
             prefix_len == lcp_loop(strings, 0, min_len)
         IN  SubSeq(strings[1], 1, prefix_len)

\* str.rfind(ch): the highest 0-based index of ch in text, -1 if absent
rfind(text, ch) ==
    LET hits == {i \in 1..Len(text) : text[i] = ch}
    IN  IF hits = {} THEN -1
        ELSE (CHOOSE i \in hits : \A j \in hits : j <= i) - 1

\* str.rstrip(): drop trailing whitespace
RECURSIVE rstrip(_)
rstrip(text) ==
    IF text # <<>> /\ text[Len(text)] \in Whitespace
    THEN rstrip(SubSeq(text, 1, Len(text) - 1))
    ELSE text

\* a plausible slip: the cut keeps the space, without rstrip
_trim_keeps_space(text) ==
    IF text = <<>> THEN text
    ELSE LET last_space == rfind(text, " ")
         IN  IF last_space = -1 THEN text
             ELSE SubSeq(text, 1, last_space + 1)

_trim_to_word_boundary(text) ==
    IF text = <<>> THEN text
    ELSE LET last_space == rfind(text, " ")
         IN  IF last_space = -1 THEN text
             ELSE rstrip(SubSeq(text, 1, last_space + 1))

\* a plausible slip: pop() instead of pop(0), evicting the newest entry
appended_pop_newest(h, text) ==
    LET a == Append(h, text)
    IN  IF Len(a) > K THEN SubSeq(a, 1, K) ELSE a

\* history after append and eviction of the oldest entry
appended(h, text) ==
    LET a == Append(h, text)
    IN  IF Len(a) > K THEN Tail(a) ELSE a

\* the last n entries of a list: h[-n:]
last_n(h, n) ==
    IF Len(h) <= n THEN h ELSE SubSeq(h, Len(h) - n + 1, Len(h))

\* a plausible slip: >= instead of >
commits_at_equal(lcp_trimmed, cp, mnc) == Len(lcp_trimmed) >= Len(cp) + mnc

\* the commit test of process
commits(lcp_trimmed, cp, mnc) == Len(lcp_trimmed) > Len(cp) + mnc

\* a plausible slip: the preview carries the trimmed text
partial_trimmed(text, cp) ==
    AgreementResult(_trim_to_word_boundary(text), FALSE, cp)

\* the non-final result of process
partial(text, cp) == AgreementResult(text, FALSE, cp)

\* a plausible slip: only an empty hypothesis counts as no new content
no_new_content_if_empty(text, cp) == text = <<>>

\* a plausible slip: < instead of <=
no_new_content_strict(text, cp) == Len(text) < Len(cp)

\* the "nothing new to flush" test of force_commit
no_new_content(text, cp) == Len(text) <= Len(cp)

process(text) ==
    LET h == appended(history, text)
        lcp == _longest_common_prefix(last_n(h, N))
        lcp_trimmed == _trim_to_word_boundary(lcp)
    IN  /\ history' = h
        /\ op' = "process"
        /\ UNCHANGED min_new_chars
        /\ IF Len(h) < N
           THEN /\ result' = partial(text, committed_prefix)
                /\ UNCHANGED committed_prefix
           ELSE IF commits(lcp_trimmed, committed_prefix, min_new_chars)
                THEN /\ committed_prefix' = lcp_trimmed
                     /\ result' = AgreementResult(lcp_trimmed, TRUE, lcp_trimmed)
                ELSE /\ result' = partial(text, committed_prefix)
                     /\ UNCHANGED committed_prefix

force_commit ==
    /\ op' = "force_commit"
    /\ UNCHANGED min_new_chars
    /\ IF history = <<>>
       THEN /\ result' = NoResult
            /\ UNCHANGED <<history, committed_prefix>>
       ELSE LET text == history[Len(history)]
            IN  IF no_new_content(text, committed_prefix)
                THEN /\ result' = NoResult
                     /\ UNCHANGED <<history, committed_prefix>>
                ELSE /\ committed_prefix' = text
                     /\ history' = <<>>
                     /\ result' = AgreementResult(text, TRUE, text)

\* a plausible slip: reset forgets to clear committed_prefix
reset_keeps_prefix ==
    /\ history' = <<>>
    /\ UNCHANGED committed_prefix
    /\ result' = NoResult
    /\ op' = "reset"
    /\ UNCHANGED min_new_chars

reset ==
    /\ history' = <<>>
    /\ committed_prefix' = <<>>
    /\ result' = NoResult
    /\ op' = "reset"
    /\ UNCHANGED min_new_chars

(***************************************************************************)
(* SileroVAD: the hysteresis of process_chunk.  The neural scorer is an    *)
(* external collaborator: its output speech_prob is an input of the        *)
(* action, in percent.  The model is loaded (WhisperServer.start loads it  *)
(* before serving) and no callback is registered (the server registers     *)
(* none).                                                                  *)
(***************************************************************************)
\* VAD_THRESHOLD, in percent
threshold == 50
min_speech_ms == 250
min_silence_ms == 300
sample_rate == 16000

\* lengths of the audio chunks, in samples (100 ms and 150 ms)
ChunkSamples == {1600, 2400}
\* speech probabilities the scorer returns, in percent
Probs == {20, 50, 80}

\* a plausible slip: the factor 1000 forgotten, a duration in whole seconds
chunk_ms_in_seconds(samples) == samples \div sample_rate

\* int(len(audio) / sample_rate * 1000); exact for the lengths of ChunkSamples
chunk_ms_of(samples) == (samples * 1000) \div sample_rate

is_speech_of(speech_prob) == speech_prob >= threshold

speech_duration_of(cur, start, chunk_ms) == cur - start + chunk_ms

silence_duration_of(cur, start, chunk_ms) == cur - start + chunk_ms

\* a plausible slip: a below-threshold chunk leaves the speech candidate
speech_start_kept(start) == start

\* the value of _speech_start_ms after a below-threshold chunk
speech_start_after_silence(start) == None

\* a plausible slip: a speech-like chunk leaves the silence candidate
silence_start_kept(start) == start

\* the value of _silence_start_ms after a chunk at or above the threshold
silence_start_after_speech(start) == None

VADEvent(event_type, timestamp_ms, confidence) ==
    [event_type |-> event_type, timestamp_ms |-> timestamp_ms,
     confidence |-> confidence]

process_chunk(samples, speech_prob) ==
    LET chunk_ms == chunk_ms_of(samples)
        is_speech == is_speech_of(speech_prob)
        speech_ev == VADEvent("speech", current_ms, speech_prob)
    IN  /\ Len(chunks) < MaxChunks
        /\ chunks' = Append(chunks, [samples |-> samples, prob |-> speech_prob])
        /\ vad_op' = "process_chunk"
        /\ current_ms' = current_ms + chunk_ms
        /\ IF is_speech
           THEN /\ silence_start_ms' = silence_start_after_speech(silence_start_ms)
                /\ IF ~is_speaking
                   THEN LET start == IF speech_start_ms = None
                                     THEN current_ms ELSE speech_start_ms
                            speech_duration ==
                                speech_duration_of(current_ms, start, chunk_ms)
                        IN  /\ speech_start_ms' = start
                            /\ IF speech_duration >= min_speech_ms
                               THEN /\ is_speaking' = TRUE
                                    /\ events' = <<VADEvent("speech_start", start,
                                                            speech_prob),
                                                   speech_ev>>
                               ELSE /\ UNCHANGED is_speaking
                                    /\ events' = <<speech_ev>>
                   ELSE /\ UNCHANGED <<speech_start_ms, is_speaking>>
                        /\ events' = <<speech_ev>>
           ELSE /\ speech_start_ms' = speech_start_after_silence(speech_start_ms)
                /\ IF is_speaking
                   THEN LET start == IF silence_start_ms = None
                                     THEN current_ms ELSE silence_start_ms
                            silence_duration ==
                                silence_duration_of(current_ms, start, chunk_ms)
                        IN  IF silence_duration >= min_silence_ms
                            THEN /\ is_speaking' = FALSE
                                 /\ events' = <<VADEvent("speech_end", current_ms,
                                                         100 - speech_prob)>>
                                 /\ silence_start_ms' = None
                            ELSE /\ UNCHANGED is_speaking
                                 /\ silence_start_ms' = start
                                 /\ events' = <<>>
                   ELSE /\ UNCHANGED <<silence_start_ms, is_speaking>>
                        /\ events' = <<>>

\* a plausible slip: reset leaves the speaking flag as it was
vad_reset_keeps_speaking ==
    /\ UNCHANGED is_speaking
    /\ speech_start_ms' = None
    /\ silence_start_ms' = None
    /\ current_ms' = 0
    /\ events' = <<>>
    /\ chunks' = <<>>
    /\ vad_op' = "reset"

vad_reset ==
    /\ is_speaking' = FALSE
    /\ speech_start_ms' = None
    /\ silence_start_ms' = None
    /\ current_ms' = 0
    /\ events' = <<>>
    /\ chunks' = <<>>
    /\ vad_op' = "reset"

InitLA ==
    /\ history = <<>>
    /\ committed_prefix = <<>>
    /\ min_new_chars \in MinNewChars
    /\ result = NoResult
    /\ op = "init"

InitVAD ==
    /\ is_speaking = FALSE
    /\ speech_start_ms = None
    /\ silence_start_ms = None
    /\ current_ms = 0
    /\ events = <<>>
    /\ chunks = <<>>
    /\ vad_op = "init"


(***************************************************************************)
(* WhisperServer.  Every Session holds its own LocalAgreement; the server  *)
(* holds one SileroVAD (self.vad), whose fields are the tracker variables  *)
(* above.  _handle_start, _handle_audio and _handle_stop contain no await, *)
(* and engine.transcribe is a synchronous call, so a handler runs from its *)
(* first line to its return without another handler in between: one line  *)
(* is one action.  An audio buffer is modelled by its length in bytes, the *)
(* ASR engine and the scorer by their outcomes.                            *)
(***************************************************************************)
_min_transcribe_samples == 16000
_max_transcribe_samples == 16000 * 30
_chunk_samples == 16000 \div 4
keep_bytes == 16000 * 5 * 2
\* chunk_samples of process_audio: int(sample_rate * chunk_ms / 1000), chunk_ms = 32
vad_chunk_samples == (sample_rate * 32) \div 1000

\* outcome of the scorer for a chunk when it raises instead of scoring
ScorerRaises == -2

\* LocalAgreement.process on the stabilizer a of a session
agreement_process(a, text) ==
    LET h == appended(a.history, text)
        lcp == _longest_common_prefix(last_n(h, N))
        lcp_trimmed == _trim_to_word_boundary(lcp)
    IN  IF Len(h) < N
        THEN [agreement |-> [a EXCEPT !.history = h],
              result |-> partial(text, a.committed_prefix)]
        ELSE IF commits(lcp_trimmed, a.committed_prefix, min_new_chars)
             THEN [agreement |-> [history |-> h,
                                  committed_prefix |-> lcp_trimmed],
                   result |-> AgreementResult(lcp_trimmed, TRUE, lcp_trimmed)]
             ELSE [agreement |-> [a EXCEPT !.history = h],
                   result |-> partial(text, a.committed_prefix)]

\* LocalAgreement.force_commit on the stabilizer a of a session
agreement_force_commit(a) ==
    IF a.history = <<>>
    THEN [agreement |-> a, result |-> NoResult]
    ELSE LET text == a.history[Len(a.history)]
         IN  IF no_new_content(text, a.committed_prefix)
             THEN [agreement |-> a, result |-> NoResult]
             ELSE [agreement |-> [history |-> <<>>, committed_prefix |-> text],
                   result |-> AgreementResult(text, TRUE, text)]

\* the fields of the server's tracker
vad_state ==
    [is_speaking |-> is_speaking, speech_start_ms |-> speech_start_ms,
     silence_start_ms |-> silence_start_ms, current_ms |-> current_ms]

\* the fields after SileroVAD.reset
vad_fresh ==
    [is_speaking |-> FALSE, speech_start_ms |-> None,
     silence_start_ms |-> None, current_ms |-> 0]

\* SileroVAD.process_chunk on tracker fields v: the fields after the call
\* and the events it returns
chunk_step(v, samples, speech_prob) ==
    LET chunk_ms == chunk_ms_of(samples)
        speech_ev == VADEvent("speech", v.current_ms, speech_prob)
        clock == v.current_ms + chunk_ms
    IN  IF is_speech_of(speech_prob)
        THEN LET sil == silence_start_after_speech(v.silence_start_ms)
             IN  IF ~v.is_speaking
                 THEN LET start == IF v.speech_start_ms = None
                                   THEN v.current_ms ELSE v.speech_start_ms
                          speech_duration ==
                              speech_duration_of(v.current_ms, start, chunk_ms)
                      IN  IF speech_duration >= min_speech_ms
                          THEN [vad |-> [is_speaking |-> TRUE,
                                         speech_start_ms |-> start,
                                         silence_start_ms |-> sil,
                                         current_ms |-> clock],
                                events |-> <<VADEvent("speech_start", start,
                                                      speech_prob),
                                             speech_ev>>]
                          ELSE [vad |-> [is_speaking |-> v.is_speaking,
                                         speech_start_ms |-> start,
                                         silence_start_ms |-> sil,
                                         current_ms |-> clock],
                                events |-> <<speech_ev>>]
                 ELSE [vad |-> [v EXCEPT !.silence_start_ms = sil,
                                         !.current_ms = clock],
                       events |-> <<speech_ev>>]
        ELSE LET sp == speech_start_after_silence(v.speech_start_ms)
             IN  IF v.is_speaking
                 THEN LET start == IF v.silence_start_ms = None
                                   THEN v.current_ms ELSE v.silence_start_ms
                          silence_duration ==
                              silence_duration_of(v.current_ms, start, chunk_ms)
                      IN  IF silence_duration >= min_silence_ms
                          THEN [vad |-> [is_speaking |-> FALSE,
                                         speech_start_ms |-> sp,
                                         silence_start_ms |-> None,
                                         current_ms |-> clock],
                                events |-> <<VADEvent("speech_end", v.current_ms,
                                                      100 - speech_prob)>>]
                          ELSE [vad |-> [is_speaking |-> v.is_speaking,
                                         speech_start_ms |-> sp,
                                         silence_start_ms |-> start,
                                         current_ms |-> clock],
                                events |-> <<>>]
                 ELSE [vad |-> [v EXCEPT !.speech_start_ms = sp,
                                         !.current_ms = clock],
                       events |-> <<>>]

\* the loop of SileroVAD.process_audio from chunk i on, over n chunks of
\* vad_chunk_samples samples (the last one padded); run[i] is what the
\* scorer does for chunk i.  An exception of the scorer leaves the fields
\* as the chunks before it set them.
RECURSIVE process_audio_from(_, _, _, _, _)
process_audio_from(v, run, i, n, evs) ==
    IF i > n
    THEN [vad |-> v, events |-> evs, raised |-> FALSE]
    ELSE IF run[i] = ScorerRaises
         THEN [vad |-> v, events |-> evs, raised |-> TRUE]
         ELSE LET st == chunk_step(v, vad_chunk_samples, run[i])
              IN  process_audio_from(st.vad, run, i + 1, n, evs \o st.events)

\* number of chunks of process_audio: len(range(0, len(audio), chunk_samples))
chunk_count(samples) == (samples + vad_chunk_samples - 1) \div vad_chunk_samples

process_audio(v, samples, run) ==
    process_audio_from(v, run, 1, chunk_count(samples), <<>>)

\* session ids a client uses
SessionIds == {"s1"}
SessionIdsPair == {"s1", "s2"}
\* length of a decoded Audio payload, in half seconds (half_second_bytes
\* each): one payload reaches the transcription threshold, two fill the
\* retention window or exceed it
PcmHalfSeconds == {5, 6}
half_second_bytes == 16000
\* hypotheses of the ASR engine: " ".join(text_parts).strip()
ServerTexts == {<<"a">>, <<"a", "a">>}

\* what the scorer does over the chunks of one process_audio call
AllOf(x) == [i \in 1..8 |-> x]
SpeechThenSilence == [i \in 1..8 |-> IF i <= 6 THEN 80 ELSE 20]
RaisesAfterTwo == [i \in 1..8 |-> IF i <= 2 THEN 80 ELSE ScorerRaises]
ScorerRuns == {AllOf(80), AllOf(20), SpeechThenSilence, RaisesAfterTwo}

\* a field a JSON object does not have
Absent == "<absent>"

\* one line read from the connection
Line(json, cmd, session_id, pcm, half_seconds) ==
    [json |-> json, cmd |-> cmd, session_id |-> session_id, pcm |-> pcm,
     half_seconds |-> half_seconds]

NoLine == Line("none", Absent, Absent, Absent, 0)

\* the lines a client sends: text that is not JSON, JSON that is not an
\* object, objects with a "cmd" and a "session_id", Audio objects with or
\* without a "pcm_b64" that decodes, and objects without "session_id"
Lines(ids, half_seconds) ==
    {Line("invalid", Absent, Absent, Absent, 0),
     Line("non_object", Absent, Absent, Absent, 0),
     Line("object", "START", Absent, Absent, 0),
     Line("object", "AUDIO", Absent, "undecodable", 0)}
    \cup {Line("object", cmd, sid, Absent, 0) :
            cmd \in {"START", "STOP", "PING"}, sid \in ids}
    \cup {Line("object", "AUDIO", sid, pcm, 0) :
            sid \in ids, pcm \in {Absent, "undecodable"}}
    \cup {Line("object", "AUDIO", sid, "decodable", h) :
            sid \in ids, h \in half_seconds}

\* outcomes of one engine.transcribe call
Engines(texts) ==
    {[raises |-> TRUE, text |-> <<>>]}
    \cup {[raises |-> FALSE, text |-> t] : t \in texts}

\* parse_command: a command, None, or an exception it does not catch
ParseNone == [kind |-> "None", session_id |-> Absent]
ParseRaises == [kind |-> "AttributeError", session_id |-> Absent]

parse_command(l) ==
    IF l.json = "invalid" THEN ParseNone
    ELSE IF l.json = "non_object" THEN ParseRaises
    ELSE IF l.cmd = "START"
         THEN IF l.session_id = Absent THEN ParseNone
              ELSE [kind |-> "StartCommand", session_id |-> l.session_id]
    ELSE IF l.cmd = "AUDIO"
         THEN IF l.session_id = Absent \/ l.pcm = Absent THEN ParseNone
              ELSE [kind |-> "AudioCommand", session_id |-> l.session_id]
    ELSE IF l.cmd = "STOP"
         THEN IF l.session_id = Absent THEN ParseNone
              ELSE [kind |-> "StopCommand", session_id |-> l.session_id]
    ELSE ParseNone

\* responses written to the connection
Response(type, session_id, text, cp, tts_final, error) ==
    [type |-> type, session_id |-> session_id, text |-> text,
     committed_prefix |-> cp, tts_final |-> tts_final, error |-> error]

NoResponse == Response("NONE", Absent, <<>>, <<>>, FALSE, "")
ReadyResponse(sid) == Response("READY", sid, <<>>, <<>>, FALSE, "")
PartialResponse(sid, text) == Response("PARTIAL", sid, text, <<>>, FALSE, "")
FinalResponse(sid, text, cp, tts_final) ==
    Response("FINAL", sid, text, cp, tts_final, "")
ErrorResponse(sid, error) == Response("ERROR", sid, <<>>, <<>>, FALSE, error)

\* Session as _handle_start constructs it
NewSession ==
    [audio_buffer |-> 0, is_active |-> TRUE,
     agreement |-> [history |-> <<>>, committed_prefix |-> <<>>]]

\* which of the scorer and the engine a handler called, and how each ended
Backend(scorer, engine) == [scorer |-> scorer, engine |-> engine]
NoBackend == Backend("none", "none")

\* the text of the result engine.transcribe returned to a handler, if the
\* handler called the engine and the call returned
Hypothesis(text) == [some |-> TRUE, text |-> text]
NoHypothesis == [some |-> FALSE, text |-> <<>>]

\* what a handler leaves behind
Outcome(ss, v, evs, vop, b, r, raised) ==
    [sessions |-> ss, vad |-> v, events |-> evs, vad_op |-> vop,
     backend |-> b, response |-> r, raised |-> raised]

\* a handler that returns r and touches nothing
Returns(r) == Outcome(sessions, vad_state, events, vad_op, NoBackend, r, FALSE)

\* the registry after del self.sessions[sid]
Removed(sid) == [s \in DOMAIN sessions \ {sid} |-> sessions[s]]

_handle_start(cmd) ==
    Outcome((cmd.session_id :> NewSession) @@ sessions, vad_state, events,
            vad_op, NoBackend, ReadyResponse(cmd.session_id), FALSE)

\* a plausible slip: the start of speech is taken for its end
has_speech_start(evs) ==
    \E i \in DOMAIN evs : evs[i].event_type = "speech_start"

\* any(e.event_type == "speech_end" for e in vad_events)
has_speech_end(evs) == \E i \in DOMAIN evs : evs[i].event_type = "speech_end"

\* a plausible slip: the placeholder of _process_command instead of the id
not_found_id_unknown(cmd) == "unknown"

\* the session id an Error for a session that is not registered carries
not_found_id(cmd) == cmd.session_id

\* a plausible slip: the whole buffer is kept after a commit
kept_buffer_whole(buf) == buf

\* length of the buffer after a commit of process: the last keep_bytes bytes
kept_buffer(buf) == IF buf > keep_bytes THEN keep_bytes ELSE buf

\* the part of _handle_audio after the scorer has returned

\* a plausible slip: the fresh hypothesis is fed to the stabilizer before
\* the silence check
silence_commit_after_process(session, eng) ==
    agreement_force_commit(agreement_process(session.agreement,
                                             eng.text).agreement)

\* commit_result = session.agreement.force_commit() of the silence path:
\* the stabilizer still holds only the hypotheses of earlier calls
silence_commit(session, eng) == agreement_force_commit(session.agreement)

\* _handle_audio from the transcription on
audio_after_vad(sid, session, buf, va, eng) ==
    LET ss1 == [sessions EXCEPT ![sid].audio_buffer = buf]
        is_silence == ~va.vad.is_speaking /\ has_speech_end(va.events)
        fc == silence_commit(session, eng)
    IN  IF eng.raises
        THEN Outcome(ss1, va.vad, va.events, "process_audio",
                     Backend("ok", "raised"), NoResponse, TRUE)
        ELSE IF is_silence /\ fc.result.some /\ fc.result.text # <<>>
        THEN Outcome([sessions EXCEPT ![sid] =
                         [audio_buffer |-> 0, is_active |-> session.is_active,
                          agreement |-> fc.agreement]],
                     vad_fresh, <<>>, "reset", Backend("ok", "ok"),
                     FinalResponse(sid, fc.result.text,
                                   fc.result.committed_prefix, TRUE),
                     FALSE)
        ELSE LET a0 == IF is_silence THEN fc.agreement ELSE session.agreement
                 ar == agreement_process(a0, eng.text)
             IN  IF ar.result.is_final
                 THEN Outcome([sessions EXCEPT ![sid] =
                                  [audio_buffer |-> kept_buffer(buf),
                                   is_active |-> session.is_active,
                                   agreement |-> ar.agreement]],
                              va.vad, va.events, "process_audio",
                              Backend("ok", "ok"),
                              FinalResponse(sid, ar.result.text,
                                            ar.result.committed_prefix, FALSE),
                              FALSE)
                 ELSE Outcome([sessions EXCEPT ![sid] =
                                  [audio_buffer |-> buf,
                                   is_active |-> session.is_active,
                                   agreement |-> ar.agreement]],
                              va.vad, va.events, "process_audio",
                              Backend("ok", "ok"),
                              PartialResponse(sid, ar.result.text), FALSE)

\* the buffer of the session after session.audio_buffer += pcm_bytes
buffer_after(session, l) ==
    session.audio_buffer + l.half_seconds * half_second_bytes

\* samples of the window handed to the scorer: audio[-self._chunk_samples:]
\* of the last _max_transcribe_samples samples of the buffer
vad_window(buf) ==
    LET max_bytes == _max_transcribe_samples * 2
        transcribe_bytes == IF buf > max_bytes THEN max_bytes ELSE buf
    IN  Min({transcribe_bytes \div 2, _chunk_samples})

_handle_audio(cmd, l, run, eng) ==
    LET sid == cmd.session_id
    IN  IF sid \notin DOMAIN sessions
        THEN Returns(ErrorResponse(not_found_id(cmd), "Session not found"))
        ELSE LET session == sessions[sid]
                 buf == buffer_after(session, l)
             IN  IF ~session.is_active
                 THEN Returns(NoResponse)
                 ELSE IF l.pcm = "undecodable"
                 THEN Returns(ErrorResponse(sid, "Invalid base64 audio"))
                 ELSE IF buf \div 2 < _min_transcribe_samples
                 THEN Outcome([sessions EXCEPT ![sid].audio_buffer = buf],
                              vad_state, events, vad_op, NoBackend,
                              NoResponse, FALSE)
                 ELSE LET va == process_audio(vad_state, vad_window(buf), run)
                      IN  IF va.raised
                          THEN Outcome([sessions EXCEPT
                                           ![sid].audio_buffer = buf],
                                       va.vad, <<>>, "process_audio",
                                       Backend("raised", "none"),
                                       NoResponse, TRUE)
                          ELSE audio_after_vad(sid, session, buf, va, eng)

_handle_stop(cmd, eng) ==
    LET sid == cmd.session_id
    IN  IF sid \notin DOMAIN sessions
        THEN Returns(NoResponse)
        ELSE LET session == sessions[sid]
                 fc == agreement_force_commit(session.agreement)
             IN  IF session.audio_buffer # 0
                    /\ fc.result.some /\ fc.result.text # <<>>
                 THEN IF eng.raises
                      THEN Outcome([sessions EXCEPT
                                       ![sid].agreement = fc.agreement],
                                   vad_state, events, vad_op,
                                   Backend("none", "raised"), NoResponse, TRUE)
                      ELSE Outcome(Removed(sid), vad_fresh, <<>>, "reset",
                                   Backend("none", "ok"),
                                   FinalResponse(sid, fc.result.text,
                                                 fc.result.committed_prefix,
                                                 TRUE),
                                   FALSE)
                 ELSE Outcome(Removed(sid), vad_fresh, <<>>, "reset",
                              NoBackend, NoResponse, FALSE)

_process_command(l, run, eng) ==
    LET cmd == parse_command(l)
    IN  IF cmd = ParseRaises
        THEN Outcome(sessions, vad_state, events, vad_op, NoBackend,
                     NoResponse, TRUE)
        ELSE IF cmd = ParseNone
        THEN Returns(ErrorResponse("unknown", "Invalid command format"))
        ELSE IF cmd.kind = "StartCommand" THEN _handle_start(cmd)
        ELSE IF cmd.kind = "AudioCommand" THEN _handle_audio(cmd, l, run, eng)
        ELSE _handle_stop(cmd, eng)

\* the line makes _handle_audio append a payload to the buffer of a session
appends(l) ==
    LET cmd == parse_command(l)
    IN  /\ cmd.kind = "AudioCommand"
        /\ cmd.session_id \in DOMAIN sessions
        /\ sessions[cmd.session_id].is_active
        /\ l.pcm = "decodable"

\* the line makes _handle_audio call the scorer
calls_scorer(l) ==
    /\ appends(l)
    /\ buffer_after(sessions[l.session_id], l) \div 2 >= _min_transcribe_samples

\* the line makes _handle_stop call the engine for the flushed text
stop_transcribes(l) ==
    LET cmd == parse_command(l)
    IN  /\ cmd.kind = "StopCommand"
        /\ cmd.session_id \in DOMAIN sessions
        /\ sessions[cmd.session_id].audio_buffer # 0
        /\ agreement_force_commit(sessions[cmd.session_id].agreement).result.some

\* the scorer and the engine when a handler calls neither
NoRun == AllOf(20)
NoEngine == [raises |-> FALSE, text |-> <<>>]

\* a plausible slip: handlers of different connections run side by side
loop_free_always == TRUE

\* the event loop can start a handler: a task runs from one await to the
\* next, the handlers and the backend calls in them contain no await, so no
\* handler is in progress when another one starts
loop_free == in_flight = {}

\* a client connects: _handle_client starts for the new connection
client_connected ==
    /\ ~conn_open
    /\ conn_open' = TRUE
    /\ line' = NoLine
    /\ response' = NoResponse
    /\ backend' = NoBackend
    /\ hypothesis' = NoHypothesis
    /\ UNCHANGED <<sessions, in_flight, la_vars, vad_vars>>

\* one turn of the loop of _handle_client: a line is read, _process_command
\* runs, the response (if any) is written; an exception leaves the loop and
\* the connection is closed
_handle_client(l, run, eng) ==
    /\ conn_open
    /\ loop_free \/ l \in in_flight
    /\ in_flight' = in_flight \ {l}
    /\ appends(l) =>
          buffer_after(sessions[l.session_id], l)
             <= MaxBufferHalfSeconds * half_second_bytes
    /\ calls_scorer(l) => current_ms < MaxAudioRuns * 256
    /\ \E o \in {_process_command(l, run, eng)} :
           /\ line' = l
           /\ sessions' = o.sessions
           /\ is_speaking' = o.vad.is_speaking
           /\ speech_start_ms' = o.vad.speech_start_ms
           /\ silence_start_ms' = o.vad.silence_start_ms
           /\ current_ms' = o.vad.current_ms
           /\ events' = o.events
           /\ vad_op' = o.vad_op
           /\ backend' = o.backend
           /\ hypothesis' = IF o.backend.engine = "ok"
                            THEN Hypothesis(eng.text) ELSE NoHypothesis
           /\ response' = o.response
           /\ conn_open' = ~o.raised
    /\ UNCHANGED <<la_vars, chunks>>

InitServer ==
    /\ sessions = [s \in {} |-> NewSession]
    /\ line = NoLine
    /\ backend = NoBackend
    /\ hypothesis = NoHypothesis
    /\ response = NoResponse
    /\ conn_open = FALSE
    /\ in_flight = {}

\* the handler of a line has run up to its backend call (vad.process_audio
\* in _handle_audio, engine.transcribe in _handle_stop) and the event loop's
\* thread is inside the call
handler_enters_call(l) ==
    /\ conn_open
    /\ loop_free
    /\ calls_scorer(l) \/ stop_transcribes(l)
    /\ in_flight' = in_flight \cup {l}
    /\ UNCHANGED <<sessions, line, backend, hypothesis, response, conn_open,
                   la_vars, vad_vars>>

Init == InitLA /\ InitVAD /\ InitServer

NextLA ==
    \/ \E text \in Strings : process(text) /\ UNCHANGED <<vad_vars, srv_vars>>
    \/ force_commit /\ UNCHANGED <<vad_vars, srv_vars>>
    \/ reset /\ UNCHANGED <<vad_vars, srv_vars>>

SpecLA == Init /\ [][NextLA]_vars

NextVAD ==
    \/ \E samples \in ChunkSamples, speech_prob \in Probs :
          process_chunk(samples, speech_prob)
          /\ UNCHANGED <<la_vars, srv_vars>>
    \/ vad_reset /\ UNCHANGED <<la_vars, srv_vars>>

\* the tracker alone: the stabilizer stays as constructed
InitTracker == Init /\ min_new_chars = 0

SpecVAD == InitTracker /\ [][NextVAD]_vars

\* the lines of a client and what the scorer and the engine do when the
\* handler of the line calls them
ServerStep(lines, runs, engines) ==
    \/ client_connected
    \/ \E l \in lines :
          /\ ~calls_scorer(l) /\ ~stop_transcribes(l)
          /\ _handle_client(l, NoRun, NoEngine)
    \/ \E l \in lines :
          /\ calls_scorer(l)
          /\ \E run \in runs, eng \in engines : _handle_client(l, run, eng)
    \/ \E l \in lines :
          /\ stop_transcribes(l)
          /\ \E eng \in engines : _handle_client(l, NoRun, eng)

NextServer ==
    ServerStep(Lines(SessionIds, PcmHalfSeconds), ScorerRuns,
               Engines(ServerTexts))

\* one client session at a time
SpecServer == InitTracker /\ [][NextServer]_vars

NextSessions ==
    ServerStep(Lines(SessionIdsPair, {5}), {AllOf(80), AllOf(20)},
               Engines({<<"a">>}))

\* two sessions on the one server
SpecSessions == InitTracker /\ [][NextSessions]_vars

\* two sessions, with the states in which a handler is inside a backend
\* call
NextLoop ==
    \/ NextSessions
    \/ \E l \in Lines(SessionIdsPair, {5}) : handler_enters_call(l)

SpecLoop == InitTracker /\ [][NextLoop]_vars

\* payloads of half a second, below the transcription threshold until the
\* second one has arrived
NextShortPayloads ==
    ServerStep(Lines(SessionIds, {1}), {AllOf(80), AllOf(20)},
               Engines({<<"a">>}))

\* one client session fed short payloads
SpecShortPayloads == InitTracker /\ [][NextShortPayloads]_vars

(***************************************************************************)
(* Properties of LocalAgreement, checked under SpecLA.                     *)
(***************************************************************************)
IsPrefix(p, t) == Len(p) <= Len(t) /\ SubSeq(t, 1, Len(p)) = p

Last(h) == h[Len(h)]

IsFinal(r) == r.some /\ r.is_final

\* trim(LCP(last N entries)) of a history
TrimmedLCP(h) == _trim_to_word_boundary(_longest_common_prefix(last_n(h, N)))

\* the commit condition of process, on the history after the append
CommitCondition(h, cp, mnc) ==
    Len(h) >= N /\ Len(TrimmedLCP(h)) > Len(cp) + mnc

\* C1: over process and force_commit calls (no reset) the length of
\* committed_prefix never decreases, and every final result carries the
\* committed_prefix the stabilizer then holds, so a later final is never
\* shorter than an earlier one.
C1_CommittedLengthMonotone ==
    [][op' \in {"process", "force_commit"} =>
         /\ Len(committed_prefix') >= Len(committed_prefix)
         /\ (IsFinal(result') =>
               result'.committed_prefix = committed_prefix')]_vars

\* a second, longer commit follows a first one: "a" then "aa"
C1_Witness ==
    /\ op = "process"
    /\ IsFinal(result)
    /\ min_new_chars = 0
    /\ history = << <<"a">>, <<"a", "a">>, <<"a", "a">> >>
    /\ committed_prefix = <<"a", "a">>

\* C2: whenever process or force_commit replaces committed_prefix, the new
\* value has the previous one as a character-wise prefix.
C2_NeverRetracted ==
    [][(op' \in {"process", "force_commit"}
        /\ committed_prefix' # committed_prefix) =>
         IsPrefix(committed_prefix, committed_prefix')]_vars

MidWord(p, h) ==
    /\ IsPrefix(p, h)
    /\ Len(h) > Len(p)
    /\ h[Len(p) + 1] \notin Whitespace
    /\ p[Len(p)] \notin Whitespace

\* the hypothesis a new committed_prefix was taken from: the hypothesis
\* just processed, or the entry force_commit flushed
TakenFrom == IF op' = "process" THEN Last(history') ELSE committed_prefix'

\* C4 as stated: committed_prefix is empty or ends exactly at a word
\* boundary (no trailing whitespace, not in the middle of a word of the
\* hypothesis it was taken from).
C4_EndsAtWordBoundary ==
    [][committed_prefix' # committed_prefix =>
         \/ committed_prefix' = <<>>
         \/ /\ Last(committed_prefix') \notin Whitespace
            /\ ~MidWord(committed_prefix', TakenFrom)]_vars

HasSpace(t) == \E i \in 1..Len(t) : t[i] = " "

\* C4 amended: a commit made by process is non-empty and does not end in a
\* space; when the LCP of the last N entries contains a space, the commit
\* is a prefix of each of those entries and is followed by whitespace in
\* each of them; when the LCP contains no space it is committed whole.
C4_ProcessCommitBoundary ==
    [][(op' = "process" /\ IsFinal(result')) =>
         LET window == last_n(history', N)
             lcp == _longest_common_prefix(window)
             cp == committed_prefix'
         IN  /\ cp # <<>>
             /\ Last(cp) # " "
             /\ IsPrefix(cp, lcp)
             /\ HasSpace(lcp) =>
                  \A j \in 1..Len(window) :
                     /\ IsPrefix(cp, window[j])
                     /\ Len(window[j]) > Len(cp)
                     /\ window[j][Len(cp) + 1] \in Whitespace
             /\ ~HasSpace(lcp) => cp = lcp]_vars

\* process commits "a" out of the stable prefix "a " of two hypotheses
C4_Witness ==
    /\ op = "process"
    /\ IsFinal(result)
    /\ committed_prefix = <<"a">>
    /\ Len(history) >= N
    /\ \A j \in 1..Len(last_n(history, N)) :
          IsPrefix(<<"a", " ">>, last_n(history, N)[j])

\* C5: len(history) <= K always; a process call appends exactly one entry
\* and evicts the oldest one when the size would exceed K.
C5_HistoryWindow ==
    [][/\ Len(history') <= K
       /\ op' = "process" =>
            \E text \in Strings :
               history' = IF Len(history) < K
                          THEN Append(history, text)
                          ELSE Append(Tail(history), text)]_vars

\* a full window of three different hypotheses
C5_Witness ==
    /\ op = "process"
    /\ Len(history) = K
    /\ history[1] # history[2]
    /\ history[2] # history[3]
    /\ history[1] # history[3]

C7_ForceCommit ==
    [][op' = "force_commit" =>
         IF history = <<>> \/ Len(Last(history)) <= Len(committed_prefix)
         THEN /\ ~result'.some
              /\ history' = history
              /\ committed_prefix' = committed_prefix
         ELSE /\ committed_prefix' = Last(history)
              /\ history' = <<>>
              /\ IsFinal(result')
              /\ result'.text = Last(history)
              /\ result'.committed_prefix = Last(history)]_vars

\* a forced commit of a hypothesis that trimming would have shortened
C7_Witness ==
    /\ op = "force_commit"
    /\ IsFinal(result)
    /\ history = <<>>
    /\ committed_prefix = result.text
    /\ _trim_to_word_boundary(committed_prefix) # committed_prefix

\* C8: reset leaves history and committed_prefix empty, the state of a
\* freshly constructed stabilizer, so the calls that follow return what a
\* fresh stabilizer returns: a first process is a preview with an empty
\* committed_prefix, a first force_commit returns none.
C8_ResetIsFresh ==
    [][/\ op' = "reset" => (history' = <<>> /\ committed_prefix' = <<>>)
       /\ (op = "reset" /\ op' = "process") =>
            /\ history' = <<result'.text>>
            /\ ~result'.is_final
            /\ result'.committed_prefix = <<>>
       /\ (op = "reset" /\ op' = "force_commit") =>
            (~result'.some /\ history' = <<>> /\ committed_prefix' = <<>>)
      ]_vars

\* the first process call after a reset
C8_Witness ==
    /\ op = "process"
    /\ Len(history) = 1
    /\ committed_prefix = <<>>
    /\ result.some
    /\ ~result.is_final
    /\ result.text = <<"a", " ">>

(***************************************************************************)
(* Properties of the speech activity hysteresis, checked under SpecVAD.    *)
(* They are stated over chunks, the chunks processed since the last        *)
(* reset, and compared with what process_chunk keeps in its four fields.   *)
(***************************************************************************)
SpeechLike(c) == c.prob >= threshold

\* accumulated duration of chunks i..j of a log
RECURSIVE Duration(_, _, _)
Duration(log, i, j) ==
    IF i > j THEN 0
    ELSE chunk_ms_of(log[i].samples) + Duration(log, i + 1, j)

\* first chunk of the run of consecutive chunks that ends the log, all
\* speech-like (speech = TRUE) or all below the threshold (speech = FALSE)
RunStart(log, speech) ==
    Min({i \in 1..Len(log) :
           \A j \in i..Len(log) : SpeechLike(log[j]) = speech})

Emitted(evs, kind) == \E i \in 1..Len(evs) : evs[i].event_type = kind

\* C9: speech_start is emitted only while not speaking, only on a chunk
\* ending a run of consecutive speech-like chunks of accumulated duration
\* >= min_speech_ms (current chunk included), timestamped at the clock of
\* the first chunk of that run; a chunk below the threshold cancels the
\* candidate.
C9_SpeechStartDebounced ==
    [][vad_op' = "process_chunk" =>
         LET log == chunks'
             cur == Last(log)
         IN  /\ Emitted(events', "speech_start") =>
                  /\ ~is_speaking
                  /\ is_speaking'
                  /\ SpeechLike(cur)
                  /\ Duration(log, RunStart(log, TRUE), Len(log))
                       >= min_speech_ms
                  /\ events'[1].event_type = "speech_start"
                  /\ events'[1].timestamp_ms =
                       Duration(log, 1, RunStart(log, TRUE) - 1)
             /\ (~is_speaking /\ is_speaking') =>
                  Emitted(events', "speech_start")
             /\ ~SpeechLike(cur) => speech_start_ms' = None]_vars

\* speech_start after a cancelled candidate: speech, silence, then a run
\* of two speech-like chunks that starts at the clock of the third chunk
C9_Witness ==
    /\ vad_op = "process_chunk"
    /\ Len(chunks) = 4
    /\ SpeechLike(chunks[1])
    /\ ~SpeechLike(chunks[2])
    /\ Emitted(events, "speech_start")
    /\ events[1].timestamp_ms = Duration(chunks, 1, 2)
    /\ is_speaking

\* C10: speech_end is emitted, and speaking cleared, only while speaking
\* and only on a chunk ending a run of consecutive below-threshold chunks
\* of accumulated duration >= min_silence_ms (current chunk included); a
\* speech-like chunk cancels the silence candidate; a single
\* below-threshold chunk shorter than min_silence_ms inside a speech
\* region leaves speaking set and emits no speech_end.
C10_SpeechEndDebounced ==
    [][vad_op' = "process_chunk" =>
         LET log == chunks'
             cur == Last(log)
         IN  /\ Emitted(events', "speech_end") =>
                  /\ is_speaking
                  /\ ~is_speaking'
                  /\ ~SpeechLike(cur)
                  /\ Duration(log, RunStart(log, FALSE), Len(log))
                       >= min_silence_ms
             /\ (is_speaking /\ ~is_speaking') =>
                  Emitted(events', "speech_end")
             /\ SpeechLike(cur) => silence_start_ms' = None
             /\ (/\ is_speaking
                 /\ ~SpeechLike(cur)
                 /\ Len(log) >= 2
                 /\ SpeechLike(log[Len(log) - 1])
                 /\ chunk_ms_of(cur.samples) < min_silence_ms) =>
                  (is_speaking' /\ ~Emitted(events', "speech_end"))]_vars

\* speech_end after a cancelled silence candidate: speaking from the
\* second chunk, a lone silence chunk, speech again, then 300 ms of silence
C10_Witness ==
    /\ vad_op = "process_chunk"
    /\ Len(chunks) = 6
    /\ ~SpeechLike(chunks[3])
    /\ SpeechLike(chunks[4])
    /\ ~SpeechLike(chunks[5])
    /\ Emitted(events, "speech_end")
    /\ ~is_speaking

\* C11: in every state reached by process_chunk and reset calls, at most
\* one of _speech_start_ms and _silence_start_ms is set.
C11_OneCandidate ==
    ~(speech_start_ms # None /\ silence_start_ms # None)

\* a silence candidate pending inside a speech region, the speech
\* candidate cleared by the same chunk
C11_Witness ==
    /\ vad_op = "process_chunk"
    /\ is_speaking
    /\ silence_start_ms # None
    /\ speech_start_ms = None
    /\ Len(chunks) >= 3
    /\ SpeechLike(chunks[Len(chunks) - 1])

\* duration in ms of a chunk of the log, from its length in samples
ChunkDurationMs(c) == (c.samples * 1000) \div 16000

\* C12 as stated: the clock never decreases, over any sequence of calls.
C12_ClockNeverDecreases ==
    [][current_ms' >= current_ms]_vars

\* C12 amended: every process_chunk call advances the clock by exactly the
\* duration of its chunk, whichever branch it takes and whatever it emits,
\* so the clock never decreases between two resets; reset sets it to 0.
C12_ClockAdvancesByChunk ==
    [][/\ vad_op' = "process_chunk" =>
            current_ms' = current_ms + ChunkDurationMs(Last(chunks'))
       /\ vad_op' # "reset" => current_ms' >= current_ms
       /\ vad_op' = "reset" => current_ms' = 0]_vars

\* the clock after three chunks of which the last emitted nothing
C12_Witness ==
    /\ vad_op = "process_chunk"
    /\ Len(chunks) = 3
    /\ events = <<>>
    /\ current_ms = ChunkDurationMs(chunks[1]) + ChunkDurationMs(chunks[2])
                      + ChunkDurationMs(chunks[3])
    /\ current_ms > 0

(***************************************************************************)
(* Properties of WhisperServer, checked under SpecServer and SpecSessions. *)
(* A step taken while the connection is open is one turn of the loop of    *)
(* _handle_client, and line' is the line it processed.                     *)
(***************************************************************************)
\* the fields of the activity tracker the server judges silence with
Tracker == <<is_speaking, speech_start_ms, silence_start_ms, current_ms>>

\* the tracker after the step is as SileroVAD.reset leaves it
TrackerFreshAfter ==
    /\ is_speaking' = FALSE
    /\ speech_start_ms' = None
    /\ silence_start_ms' = None
    /\ current_ms' = 0

\* the step processed a line that parses to a command of this kind
Handled(kind) == conn_open /\ parse_command(line').kind = kind

\* C13: a Start, Audio or Stop command addressed to session a leaves the
\* speaking flag, the candidate timestamps and the clock that another
\* registered session b is judged with unchanged.
C13_ActivityStateOwned ==
    [][\A a \in SessionIdsPair : \A b \in SessionIdsPair \ {a} :
          (/\ conn_open
           /\ b \in DOMAIN sessions
           /\ parse_command(line').session_id = a)
          => UNCHANGED Tracker]_vars

\* C14: when the scorer or the engine raises during an Audio command, the
\* response is an Error for that session, the session stays registered and
\* active, its buffer holds the chunk just appended, and the connection
\* stays open.
C14_BackendFailureAnswered ==
    [][(/\ Handled("AudioCommand")
        /\ backend'.scorer = "raised" \/ backend'.engine = "raised")
       => /\ response'.type = "ERROR"
          /\ response'.session_id = line'.session_id
          /\ conn_open'
          /\ line'.session_id \in DOMAIN sessions'
          /\ sessions'[line'.session_id].is_active
          /\ sessions'[line'.session_id].audio_buffer
                = buffer_after(sessions[line'.session_id], line')]_vars

\* C15: after a Stop for a registered session, whatever happens during the
\* flush, the id is absent from the registry and the tracker is reset; a
\* Stop for an id with no session changes no state and returns no response.
C15_NoSessionOutlivesStop ==
    [][Handled("StopCommand")
       => IF line'.session_id \in DOMAIN sessions
          THEN /\ line'.session_id \notin DOMAIN sessions'
               /\ TrackerFreshAfter
          ELSE /\ UNCHANGED <<sessions, Tracker>>
               /\ response' = NoResponse]_vars

\* C16: an Audio command for a session that has been stopped (its Stop has
\* just returned the flushed Final) produces no response and changes no
\* state.
C16_AudioAfterStopIgnored ==
    [][(/\ Handled("AudioCommand")
        /\ line.cmd = "STOP"
        /\ response.type = "FINAL"
        /\ line'.session_id = line.session_id)
       => /\ response' = NoResponse
          /\ UNCHANGED <<sessions, Tracker>>]_vars

\* C17: an Audio command whose session id is not in the registry returns an
\* Error carrying that id and leaves the registry, all sessions and the
\* tracker unchanged; a Start with that id processed next returns Ready and
\* registers an active session.
C17_UnknownSessionRejected ==
    [][/\ (/\ Handled("AudioCommand")
           /\ line'.session_id \notin DOMAIN sessions)
          => /\ response'.type = "ERROR"
             /\ response'.session_id = line'.session_id
             /\ UNCHANGED <<sessions, Tracker>>
       /\ (/\ Handled("StartCommand")
           /\ line.cmd = "AUDIO"
           /\ response.type = "ERROR"
           /\ response.error = "Session not found"
           /\ line'.session_id = line.session_id)
          => /\ response' = ReadyResponse(line.session_id)
             /\ line.session_id \in DOMAIN sessions'
             /\ sessions'[line.session_id].is_active]_vars

\* an Audio command for s1, which is not registered, has been answered with
\* an Error while s2 is registered and holds audio
C17_Witness ==
    /\ conn_open
    /\ line.cmd = "AUDIO"
    /\ line.pcm = "decodable"
    /\ response = ErrorResponse("s1", "Session not found")
    /\ "s1" \notin DOMAIN sessions
    /\ "s2" \in DOMAIN sessions
    /\ sessions["s2"].audio_buffer > 0
    /\ sessions["s2"].agreement.history # <<>>

\* C18: a line whose command name is not START, AUDIO or STOP gets no
\* response and changes no state.
C18_UnknownCommandIgnored ==
    [][(/\ conn_open
        /\ line'.json = "object"
        /\ line'.cmd \notin {"START", "AUDIO", "STOP"})
       => /\ response' = NoResponse
          /\ UNCHANGED <<sessions, Tracker>>]_vars

\* the line is malformed: it cannot be parsed as a command object, a
\* required field is missing, or its audio does not decode
Malformed(l) ==
    \/ l.json \in {"invalid", "non_object"}
    \/ /\ l.json = "object"
       /\ l.cmd \in {"START", "AUDIO", "STOP"}
       /\ \/ l.session_id = Absent
          \/ l.cmd = "AUDIO" /\ l.pcm \in {Absent, "undecodable"}

\* C19: a malformed line yields an Error response and mutates nothing: the
\* registry, every session's buffer and stabilizer, and the tracker are the
\* same after the command as before it.
C19_MalformedRejectedOnce ==
    [][(conn_open /\ Malformed(line'))
       => /\ response'.type = "ERROR"
          /\ UNCHANGED <<sessions, Tracker>>]_vars

\* C20: the Error for a malformed command carries the session id of the
\* line when the line has one, and "unknown" only when it has none.
C20_ErrorToBestKnownId ==
    [][(/\ conn_open
        /\ Malformed(line')
        /\ response'.type = "ERROR")
       => response'.session_id = IF line'.session_id # Absent
                                 THEN line'.session_id ELSE "unknown"]_vars

\* C23: Start(id) returns Ready and leaves id registered as an active
\* session with empty buffer, history and committed prefix and a fresh
\* tracker (not speaking, no candidate, clock 0), replacing an earlier
\* session under that id and leaving the other sessions unchanged.
C23_StartIsFresh ==
    [][Handled("StartCommand")
       => /\ response' = ReadyResponse(line'.session_id)
          /\ line'.session_id \in DOMAIN sessions'
          /\ sessions'[line'.session_id] = NewSession
          /\ TrackerFreshAfter
          /\ \A s \in DOMAIN sessions \ {line'.session_id} :
                s \in DOMAIN sessions' /\ sessions'[s] = sessions[s]]_vars

\* the forced commit of the session the step's line addresses, from the
\* stabilizer before the step
ForcedCommit == agreement_force_commit(sessions[line'.session_id].agreement)

\* the step answered with an utterance-terminal Final
UtteranceFinal == response'.type = "FINAL" /\ response'.tts_final

\* after the step the tracker shows silence detected in the call of the
\* step: not speaking, and a speech_end among the events of the call
SilenceLeftDetected ==
    /\ vad_op' = "process_audio"
    /\ ~is_speaking'
    /\ \E i \in DOMAIN events' : events'[i].event_type = "speech_end"

\* C24: when an Audio command detects silence and force_commit yields
\* content, the response is an utterance-terminal Final whose text and
\* committed prefix are the forced commit, the buffer of the session is
\* empty afterwards and the tracker is reset.  (With content to commit,
\* silence never stays detected after the handler has returned normally.)
C24_SilenceFinal ==
    [][Handled("AudioCommand")
       => /\ (line'.session_id \in DOMAIN sessions /\ UtteranceFinal)
             => /\ ForcedCommit.result.some
                /\ response' = FinalResponse(line'.session_id,
                                             ForcedCommit.result.text,
                                             ForcedCommit.result.text, TRUE)
                /\ ForcedCommit.result.text
                      = Last(sessions[line'.session_id].agreement.history)
                /\ sessions'[line'.session_id].audio_buffer = 0
                /\ TrackerFreshAfter
                /\ backend' = Backend("ok", "ok")
          /\ (/\ line'.session_id \in DOMAIN sessions
              /\ backend'.engine = "ok"
              /\ SilenceLeftDetected)
             => ~ForcedCommit.result.some]_vars

\* an Audio command that detected silence has returned the forced commit
\* "aa" of a session whose committed prefix was "a"
C24_Witness ==
    /\ line.cmd = "AUDIO"
    /\ line.pcm = "decodable"
    /\ response = FinalResponse("s1", <<"a", "a">>, <<"a", "a">>, TRUE)
    /\ backend = Backend("ok", "ok")
    /\ vad_op = "reset"
    /\ current_ms = 0
    /\ "s1" \in DOMAIN sessions
    /\ sessions["s1"].audio_buffer = 0

\* C25: after an Audio command has emitted an utterance-terminal Final and
\* cleared the buffer, the history and the committed prefix of the session
\* are both empty.
C25_NewUtteranceFromResetStabilizer ==
    [][(Handled("AudioCommand") /\ UtteranceFinal)
       => /\ sessions'[line'.session_id].audio_buffer = 0
          /\ sessions'[line'.session_id].agreement.history = <<>>
          /\ sessions'[line'.session_id].agreement.committed_prefix = <<>>]_vars

\* C26: Stop on a registered session with a non-empty buffer forces a final
\* transcription and a forced commit; if the commit yields content it is
\* returned as an utterance-terminal Final whose text and committed prefix
\* are the forced commit; Stop returns no response exactly when the buffer
\* was empty or the forced commit yielded nothing.
C26_StopFlushes ==
    [][(Handled("StopCommand") /\ line'.session_id \in DOMAIN sessions)
       => LET nothing_to_flush ==
                  \/ sessions[line'.session_id].audio_buffer = 0
                  \/ ~ForcedCommit.result.some
          IN  /\ sessions[line'.session_id].audio_buffer # 0
                 => backend'.engine # "none"
              /\ ~nothing_to_flush
                 => response' = FinalResponse(line'.session_id,
                                              ForcedCommit.result.text,
                                              ForcedCommit.result.text, TRUE)
              /\ response' = NoResponse <=> nothing_to_flush]_vars

\* C28: speech_start_ms is None in every state where the tracker is
\* speaking, and silence_start_ms is None in every state where it is not.
C28_CandidatesOnlyWhilePending ==
    /\ is_speaking => speech_start_ms = None
    /\ ~is_speaking => silence_start_ms = None

\* bytes of the retention window: 5 s of 16-bit samples
RetentionBytes == 5 * 2 * sample_rate

\* C29: in Audio handling on the non-silence path, when process returns
\* final the buffer afterwards is the trailing part of the buffer of at most
\* the retention window and the response is a Final, not utterance-terminal,
\* whose text is the new committed prefix; when process returns non-final
\* the buffer is unchanged and the response is a Partial whose text is the
\* raw hypothesis (the entry process appended to the history).
C29_ProcessPath ==
    [][(Handled("AudioCommand") /\ line'.session_id \in DOMAIN sessions)
       => LET sid == line'.session_id
              buf == buffer_after(sessions[sid], line')
              before == sessions[sid].agreement
              after == sessions'[sid].agreement
          IN  /\ (response'.type = "FINAL" /\ ~response'.tts_final)
                 => /\ sessions'[sid].audio_buffer
                          = IF buf > RetentionBytes THEN RetentionBytes ELSE buf
                    /\ response'.text = after.committed_prefix
                    /\ response'.committed_prefix = after.committed_prefix
                    /\ after.committed_prefix # before.committed_prefix
                    /\ after.history # <<>>
              /\ response'.type = "PARTIAL"
                 => /\ sessions'[sid].audio_buffer = buf
                    /\ after.history # <<>>
                    /\ response'.text = Last(after.history)
                    /\ after.committed_prefix = before.committed_prefix
              /\ (backend'.engine = "ok" /\ ~UtteranceFinal)
                 => response'.type \in {"FINAL", "PARTIAL"}]_vars

\* a commit of process on a buffer of 5.5 s (2.5 s buffered, 3 s appended)
\* has left the last 5 s in the buffer
C29_Witness ==
    /\ line.cmd = "AUDIO"
    /\ line.half_seconds = 6
    /\ response.type = "FINAL"
    /\ ~response.tts_final
    /\ response.text = <<"a">>
    /\ "s1" \in DOMAIN sessions
    /\ sessions["s1"].audio_buffer = RetentionBytes
    /\ sessions["s1"].agreement.committed_prefix = <<"a">>

\* p is a prefix of every element of the list
CommonPrefix(p, strings) ==
    \A j \in 1..Len(strings) : IsPrefix(p, strings[j])

\* the reference definition, for a list strings and a result p
IsLongestCommonPrefix(p, strings) ==
    /\ strings = <<>> => p = <<>>
    /\ Len(strings) = 1 => p = strings[1]
    /\ (strings # <<>> /\ \A j \in 1..Len(strings) : strings[j] = strings[1])
       => p = strings[1]
    /\ strings # <<>>
       => /\ CommonPrefix(p, strings)
          /\ \A n \in 0..Len(strings[1]) :
                CommonPrefix(SubSeq(strings[1], 1, n), strings) => n <= Len(p)
          /\ \A j \in 1..Len(strings) : Len(p) <= Len(strings[j])
          /\ (\A j \in 1..Len(strings) : Len(p) < Len(strings[j]))
             => \E j, k \in 1..Len(strings) :
                   strings[j][Len(p) + 1] # strings[k][Len(p) + 1]

\* C30: _longest_common_prefix equals the reference definition on every
\* list of hypotheses the stabilizer holds (the whole history and its last
\* N entries): "" for the empty list, the element for a one-element list,
\* the string for identical strings, otherwise the longest prefix of every
\* element, ending at the first position where two elements differ.
C30_LongestCommonPrefix ==
    /\ IsLongestCommonPrefix(_longest_common_prefix(history), history)
    /\ IsLongestCommonPrefix(_longest_common_prefix(last_n(history, N)),
                             last_n(history, N))

\* three hypotheses that agree on "a" and differ at the second character
C30_Witness ==
    /\ op = "process"
    /\ history = << <<"a", "a">>, <<"a", " ">>, <<"a", "a">> >>
    /\ _longest_common_prefix(history) = <<"a">>

\* C27: for every Audio command an active session accepts (payload decoded
\* and appended), the scorer and the tracker are invoked, also when the
\* buffer is still below the minimum transcription threshold.
C27_ScorerOnEveryAudio ==
    [][(conn_open /\ appends(line')) => backend'.scorer # "none"]_vars

\* a command for session b can be processed now: a line addressed to b is
\* handled and answered
CanAnswer(b) ==
    ENABLED (\E l \in Lines(SessionIdsPair, {5}) :
                /\ l.session_id = b
                /\ _handle_client(l, NoRun, NoEngine)
                /\ response' # NoResponse)

\* C21: while the handler of a command for session a is inside a scorer or
\* engine call, a command for another session b can be processed and
\* answered.
C21_CallDoesNotBlockOthers ==
    \A h \in in_flight :
       \A b \in SessionIdsPair \ {h.session_id} : CanAnswer(b)

\* C22: for any session id at most one Audio or Stop handler is between its
\* start and its end, and a Stop begins its flush and removal only when no
\* other command for that session is in flight.
C22_SessionSerialized ==
    [][/\ \A h1, h2 \in in_flight' :
             h1.session_id = h2.session_id => h1 = h2
       /\ (Handled("StopCommand") /\ line'.session_id \in DOMAIN sessions)
          => \A h \in in_flight :
                h.session_id = line'.session_id => h = line']_vars

\* s1's Audio handler is inside its backend call while s2 is registered and
\* holds audio
C22_Witness ==
    /\ \E h \in in_flight : h.cmd = "AUDIO" /\ h.session_id = "s1"
    /\ "s1" \in DOMAIN sessions
    /\ "s2" \in DOMAIN sessions
    /\ sessions["s2"].audio_buffer > 0
    /\ sessions["s1"].agreement.history # <<>>

(***************************************************************************)
(* Word-boundary trim as a function of its argument, checked under SpecLA  *)
(* on the hypotheses in the history and on their concatenations.           *)
(***************************************************************************)
\* strings handed to the trim: up to twice the length of a hypothesis
TrimInputs ==
    {history[i] : i \in DOMAIN history}
    \cup {history[i] \o history[j] : i, j \in DOMAIN history}

\* 1-based position of the last space of a string that has one
LastSpace(t) == CHOOSE p \in 1..Len(t) :
                    t[p] = " " /\ \A q \in (p + 1)..Len(t) : t[q] # " "

\* r is t cut just after its last space and right-stripped: a prefix of t
\* that ends before the last space, does not end in whitespace, and leaves
\* out only whitespace up to that space
CutAndStripped(r, t) ==
    /\ IsPrefix(r, t)
    /\ Len(r) < LastSpace(t)
    /\ r # <<>> => r[Len(r)] \notin Whitespace
    /\ \A i \in (Len(r) + 1)..LastSpace(t) : t[i] \in Whitespace

\* the cases of the trim on one string
TrimCases(t) ==
    LET r == _trim_to_word_boundary(t)
    IN  /\ t = <<>> => r = <<>>
        /\ ~HasSpace(t) => r = t
        /\ (t # <<>> /\ t[Len(t)] = " ")
           => /\ IsPrefix(r, t)
              /\ r # <<>> => r[Len(r)] \notin Whitespace
              /\ \A i \in (Len(r) + 1)..Len(t) : t[i] \in Whitespace
        /\ HasSpace(t) => CutAndStripped(r, t)
        /\ IsPrefix(r, t)

\* C31: "" maps to ""; a string without a space is returned unmodified; a
\* string ending in spaces has them stripped and is otherwise kept whole;
\* any other string is cut just after its last space and right-stripped;
\* the result is a prefix of the input and trimming is idempotent.
C31_TrimIdempotent ==
    \A t \in TrimInputs :
       /\ TrimCases(t)
       /\ _trim_to_word_boundary(_trim_to_word_boundary(t))
             = _trim_to_word_boundary(t)

\* C31, amended: the cases and the prefix property as stated; a second trim
\* changes the result exactly when the result still contains a space.
C31_TrimCasesAndPrefix ==
    \A t \in TrimInputs :
       /\ TrimCases(t)
       /\ _trim_to_word_boundary(_trim_to_word_boundary(t))
             = _trim_to_word_boundary(t)
          <=> ~HasSpace(_trim_to_word_boundary(t))

\* " a " is among the inputs: it is trimmed to " a", and " a" to ""
C31_Witness ==
    /\ op = "process"
    /\ history = << <<" ", "a">>, <<" ">> >>
    /\ <<" ", "a", " ">> \in TrimInputs
    /\ _trim_to_word_boundary(<<" ", "a", " ">>) = <<" ", "a">>
    /\ _trim_to_word_boundary(<<" ", "a">>) = <<>>


(***************************************************************************)
(* The hypothesis of a call that ends an utterance.                        *)
(***************************************************************************)

IsBoundary(e) == e.event_type \in {"speech_start", "speech_end"}

\* the boundary events among the events of one call, in order
Boundary(evs) == SelectSeq(evs, IsBoundary)

\* the boundary events the calls of the log returned, from a fresh tracker:
\* the log holds the chunks fed since the last reset
RECURSIVE BoundaryLogFrom(_, _, _)
BoundaryLogFrom(v, log, i) ==
    IF i > Len(log)
    THEN <<>>
    ELSE LET st == chunk_step(v, log[i].samples, log[i].prob)
         IN  Boundary(st.events) \o BoundaryLogFrom(st.vad, log, i + 1)

BoundaryLog(log) == BoundaryLogFrom(vad_fresh, log, 1)

\* speech_start and speech_end alternate, speech_start first
Alternates(b) ==
    \A i \in DOMAIN b :
       b[i].event_type = IF i % 2 = 1 THEN "speech_start" ELSE "speech_end"

\* C33: between two resets the speech_start and speech_end events of a
\* tracker alternate, starting with speech_start, and _is_speaking is true
\* exactly when the most recent of them is a speech_start; one process_chunk
\* call returns at most one of them, and a speech_start comes before the
\* speech event of the same call; reset starts a new sequence.
C33_BoundariesAlternate ==
    [][LET b == BoundaryLog(chunks')
       IN  /\ vad_op' = "process_chunk"
              => /\ b = BoundaryLog(chunks) \o Boundary(events')
                 /\ Len(Boundary(events')) <= 1
                 /\ \A i, j \in DOMAIN events' :
                       (/\ events'[i].event_type = "speech_start"
                        /\ events'[j].event_type = "speech")
                          => i < j
                 /\ Emitted(events', "speech_start")
                       => Emitted(events', "speech")
                 /\ Alternates(b)
                 /\ is_speaking'
                       <=> (b # <<>> /\ Last(b).event_type = "speech_start")
           /\ vad_op' = "reset"
              => b = <<>> /\ events' = <<>> /\ ~is_speaking']_vars

\* a second utterance has just started: the calls since the last reset
\* returned speech_start, speech_end and speech_start, the last call the
\* speech_start followed by its speech event
C33_Witness ==
    /\ vad_op = "process_chunk"
    /\ Len(BoundaryLog(chunks)) = 3
    /\ is_speaking
    /\ Len(events) = 2
    /\ events[1].event_type = "speech_start"
    /\ events[2].event_type = "speech"

====
